---------------------------- MODULE Spec2Model ----------------------------
(***************************************************************************)
(* Model of generatekey.py: the key issuer.  One invocation of main() is   *)
(* a short-lived process that reads the clock, computes the expiry, builds *)
(* the payload and runs write_outputs() against a shared output directory. *)
(* Two such processes may run at once.  Every file operation and every     *)
(* clock read of the program is a step.                                    *)
(***************************************************************************)
EXTENDS Integers, Sequences, FiniteSets, TLC

(***************************************************************************)
(* Bounds of the model.                                                    *)
(***************************************************************************)
\* invocations started in one behaviour
MaxRuns == 2
\* half-second ticks the clock advances in one behaviour
MaxClock == 1
\* largest amount handed to compute_expiry in SpecExpiry
MaxAmount == 30

\* The invocations that may run at once: p2 stands for one started while
\* p1's is running.  An invocation may stop at any step for good (an
\* interrupted or failed process): nothing forces it to take its next step.
Procs == {"p1", "p2"}

(***************************************************************************)
(* Calendar arithmetic of datetime and dateutil.relativedelta, as the      *)
(* library computes it (proleptic Gregorian ordinals).                     *)
(***************************************************************************)
VALID_UNITS == {"days", "weeks", "months", "years"}

Min(a, b) == IF a < b THEN a ELSE b

is_leap(year) == year % 4 = 0 /\ (year % 100 # 0 \/ year % 400 = 0)

DAYS_IN_MONTH == <<31, 28, 31, 30, 31, 30, 31, 31, 30, 31, 30, 31>>

DAYS_BEFORE_MONTH == <<0, 31, 59, 90, 120, 151, 181, 212, 243, 273, 304, 334>>

days_in_month(year, month) ==
    IF month = 2 /\ is_leap(year) THEN 29 ELSE DAYS_IN_MONTH[month]

days_before_year(year) ==
    LET y == year - 1 IN y * 365 + (y \div 4) - (y \div 100) + (y \div 400)

days_before_month(year, month) ==
    DAYS_BEFORE_MONTH[month] + (IF month > 2 /\ is_leap(year) THEN 1 ELSE 0)

ymd2ord(year, month, day) ==
    days_before_year(year) + days_before_month(year, month) + day

ord2ymd(ordinal) ==
    LET n0   == ordinal - 1
        n400 == n0 \div 146097
        r400 == n0 % 146097
        n100 == r400 \div 36524
        r100 == r400 % 36524
        n4   == r100 \div 1461
        r4   == r100 % 1461
        n1   == r4 \div 365
        n    == r4 % 365
        year == n400 * 400 + 1 + n100 * 100 + n4 * 4 + n1
        leapyear == n1 = 3 /\ (n4 # 24 \/ n100 = 3)
        m0   == (n + 50) \div 32
        pre0 == DAYS_BEFORE_MONTH[m0] + (IF m0 > 2 /\ leapyear THEN 1 ELSE 0)
        month == IF pre0 > n THEN m0 - 1 ELSE m0
        preceding == IF pre0 > n
                     THEN pre0 - (DAYS_IN_MONTH[month]
                                  + (IF month = 2 /\ leapyear THEN 1 ELSE 0))
                     ELSE pre0
    IN  IF n1 = 4 \/ n100 = 4
        THEN [year |-> year - 1, month |-> 12, day |-> 31]
        ELSE [year |-> year, month |-> month, day |-> n - preceding + 1]

\* datetime.replace(year, month, day)
replace_date(dt, year, month, day) ==
    [dt EXCEPT !.year = year, !.month = month, !.day = day]

\* datetime + timedelta(days): wall-clock arithmetic, tzinfo kept
add_days(dt, days) ==
    LET d == ord2ymd(ymd2ord(dt.year, dt.month, dt.day) + days)
    IN  replace_date(dt, d.year, d.month, d.day)

\* relativedelta(...): the constructor's _fix() folds months beyond 11 into
\* years, and weeks are kept as 7 days each
relativedelta(years, months, days, weeks) ==
    [years  |-> IF months > 11 THEN years + (months \div 12) ELSE years,
     months |-> IF months > 11 THEN months % 12 ELSE months,
     days   |-> days + weeks * 7]

\* relativedelta.__radd__
radd(dt, rd) ==
    LET month0 == dt.month + rd.months
        year   == dt.year + rd.years + (IF month0 > 12 THEN 1 ELSE 0)
        month  == IF month0 > 12 THEN month0 - 12 ELSE month0
        day    == Min(days_in_month(year, month), dt.day)
    IN  add_days(replace_date(dt, year, month, day), rd.days)


\* str.lower() on the unit strings the model draws
lower(unit) == IF unit = "Days" THEN "days" ELSE unit

NoDateTime ==
    [year |-> 0, month |-> 0, day |-> 0, hour |-> 0, minute |-> 0,
     second |-> 0, microsecond |-> 0, utcoffset |-> 0]

\* A faulty variant of compute_expiry: months and years as fixed numbers of
\* days (30 and 365), which C6 tells from the calendar offset.
compute_expiry_fixed_days(now_pht, unit, amount) ==
    LET u == lower(unit) IN
    IF u \notin VALID_UNITS \/ amount <= 0
    THEN [raised |-> TRUE, value |-> NoDateTime]
    ELSE [raised |-> FALSE,
          value |-> add_days(now_pht,
                        amount * (IF u = "days" THEN 1
                                  ELSE IF u = "weeks" THEN 7
                                  ELSE IF u = "months" THEN 30 ELSE 365))]

\* compute_expiry: raised is TRUE where the function raises ValueError
compute_expiry(now_pht, unit, amount) ==
    LET u == lower(unit) IN
    IF u \notin VALID_UNITS THEN [raised |-> TRUE, value |-> NoDateTime]
    ELSE IF amount <= 0 THEN [raised |-> TRUE, value |-> NoDateTime]
    ELSE IF u = "days"
         THEN [raised |-> FALSE, value |-> radd(now_pht, relativedelta(0, 0, amount, 0))]
    ELSE IF u = "weeks"
         THEN [raised |-> FALSE, value |-> radd(now_pht, relativedelta(0, 0, 0, amount))]
    ELSE IF u = "months"
         THEN [raised |-> FALSE, value |-> radd(now_pht, relativedelta(0, amount, 0, 0))]
    ELSE IF u = "years"
         THEN [raised |-> FALSE, value |-> radd(now_pht, relativedelta(amount, 0, 0, 0))]
    ELSE [raised |-> FALSE, value |-> now_pht]

\* datetime.isoformat(): the fraction is printed only when it is not zero
to_rfc3339(dt) ==
    [date   |-> <<dt.year, dt.month, dt.day>>,
     time   |-> <<dt.hour, dt.minute, dt.second>>,
     frac   |-> IF dt.microsecond = 0 THEN <<>> ELSE <<dt.microsecond>>,
     offset |-> <<dt.utcoffset, 0>>]

\* datetime.strftime("%Y%m%d_%H%M%S")
strftime(dt) ==
    [date |-> <<dt.year, dt.month, dt.day>>,
     time |-> <<dt.hour, dt.minute, dt.second>>]

second_of_day(dt) == dt.hour * 3600 + dt.minute * 60 + dt.second

\* datetime.astimezone(timezone.utc)
astimezone_utc(dt) ==
    LET secs == second_of_day(dt) - dt.utcoffset * 3600
        d    == ord2ymd(ymd2ord(dt.year, dt.month, dt.day) + (secs \div 86400))
        s    == secs % 86400
    IN  [year |-> d.year, month |-> d.month, day |-> d.day,
         hour |-> s \div 3600, minute |-> (s % 3600) \div 60, second |-> s % 60,
         microsecond |-> dt.microsecond, utcoffset |-> 0]

\* int(datetime.timestamp())
timestamp_int(dt) ==
    (ymd2ord(dt.year, dt.month, dt.day) - ymd2ord(1970, 1, 1)) * 86400
        + second_of_day(dt) - dt.utcoffset * 3600

\* The wall clock of the host when the first invocation may start.
ClockStart ==
    [year |-> 2024, month |-> 1, day |-> 31, hour |-> 23, minute |-> 59,
     second |-> 59, microsecond |-> 500000, utcoffset |-> 8]

\* datetime.now(PHT) when the clock has advanced by ticks half seconds
datetime_now(ticks) ==
    LET half == second_of_day(ClockStart) * 2
                    + (ClockStart.microsecond \div 500000) + ticks
        d    == ord2ymd(ymd2ord(ClockStart.year, ClockStart.month, ClockStart.day)
                        + (half \div 172800))
        s    == (half % 172800) \div 2
    IN  [year |-> d.year, month |-> d.month, day |-> d.day,
         hour |-> s \div 3600, minute |-> (s % 3600) \div 60, second |-> s % 60,
         microsecond |-> (half % 2) * 500000, utcoffset |-> 8]

\* make_key: 16 random bytes, URL-safe base64 without padding, prefixed
make_key(raw) == [prefix |-> "KEY-", b64 |-> raw]

(***************************************************************************)
(* State.                                                                  *)
(***************************************************************************)
VARIABLES
    clock,      \* half seconds the host clock has advanced
    started,    \* invocations that passed validation so far
    outDir,     \* whether the output directory exists
    runDirs,    \* run directory name -> its keys.json and keys.csv
    latest,     \* <outputDir>/latest.json
    index,      \* <outputDir>/index.json
    pc,         \* per process: the statement of write_outputs() it is at
    args,       \* per process: the parsed command line
    payload,    \* per process: the payload dict built by main()
    stamp,      \* per process: run_dir.name of write_outputs()
    idx,        \* per process: the local list `index` of write_outputs()
    log,        \* history: the successful invocations, in order of completion
    overlap,    \* history: an invocation ran while another was running
    broken,     \* history: an invocation died inside write_outputs()
    latestSeen, \* history: the runs latest.json has been written for
    call        \* a direct call of compute_expiry: arguments and result

vars == <<clock, started, outDir, runDirs, latest, index, pc, args, payload,
          stamp, idx, log, overlap, broken, latestSeen, call>>

NoArgs == [unit |-> "", amount |-> 0, count |-> 0, tag |-> ""]

NoPayload ==
    [generated_at_pht |-> to_rfc3339(NoDateTime),
     generated_at_utc |-> to_rfc3339(NoDateTime),
     unit |-> "", amount |-> 0, count |-> 0, tag |-> "",
     expires_at_pht |-> to_rfc3339(NoDateTime),
     expires_at_utc |-> to_rfc3339(NoDateTime),
     expires_at_unix |-> 0, timezone |-> "", keys |-> <<>>]

NoStamp == strftime(NoDateTime)

NoFile == [exists |-> FALSE, content |-> NoPayload]

NoCsv == [exists |-> FALSE, header |-> <<>>, rows |-> <<>>]

NoCall == [state |-> "none", now |-> NoDateTime, unit |-> "", amount |-> 0,
           result |-> NoDateTime]

\* The command lines the model draws: the spec's scenario, a tagged one-key
\* batch, a batch of no keys, an unknown unit and a non-positive amount.
Requests ==
    { [unit |-> "days",   amount |-> 30, count |-> 2, tag |-> ""],
      [unit |-> "months", amount |-> 1,  count |-> 1, tag |-> "vip"],
      [unit |-> "weeks",  amount |-> 2,  count |-> 0, tag |-> ""],
      [unit |-> "hours",  amount |-> 1,  count |-> 1, tag |-> ""],
      [unit |-> "days",   amount |-> 0,  count |-> 1, tag |-> ""] }

\* What secrets.token_bytes may return, abstracted to one value: nothing the
\* program does depends on the bytes drawn.
RawSpace == {0}

\* [make_key() for _ in range(count)]
KeyLists(count) ==
    LET n == IF count > 0 THEN count ELSE 0
    IN  { [i \in 1..n |-> make_key(f[i])] : f \in [1..n -> RawSpace] }

\* The index.json the first invocation may find: absent, or JSON that is no
\* array.  (Unparseable text is what a reader finds between another
\* invocation's open("w") and its dump.)
InitialIndex ==
    { [exists |-> FALSE, parse |-> "error",  items |-> <<>>],
      [exists |-> TRUE,  parse |-> "object", items |-> <<>>] }

Running(p) == pc[p] # "idle"

\* A faulty order of the statements: the index is read and written before
\* latest.json, which C10 tells from the program's order.
StepAfterIndexFirst(step) ==
    CASE step = "mkdir_run"   -> "keys_json"
      [] step = "keys_json"   -> "keys_csv"
      [] step = "keys_csv"    -> "read_index"
      [] step = "read_index"  -> "open_index"
      [] step = "open_index"  -> "dump_index"
      [] step = "dump_index"  -> "latest"
      [] step = "latest"      -> "idle"

\* The statements of write_outputs() in program order.
StepAfter(step) ==
    CASE step = "mkdir_run"   -> "keys_json"
      [] step = "keys_json"   -> "keys_csv"
      [] step = "keys_csv"    -> "latest"
      [] step = "latest"      -> "read_index"
      [] step = "read_index"  -> "open_index"
      [] step = "open_index"  -> "dump_index"
      [] step = "dump_index"  -> "idle"

\* argparse (choices, case-sensitive) and compute_expiry accept the arguments
Accepted(a, now_pht) ==
    /\ a.unit \in VALID_UNITS
    /\ ~compute_expiry(now_pht, a.unit, a.amount).raised

\* The payload dict of main()
MakePayload(a, now_pht, expires_pht, keys) ==
    [generated_at_pht |-> to_rfc3339(now_pht),
     generated_at_utc |-> to_rfc3339(astimezone_utc(now_pht)),
     unit |-> a.unit, amount |-> a.amount, count |-> a.count, tag |-> a.tag,
     expires_at_pht |-> to_rfc3339(expires_pht),
     expires_at_utc |-> to_rfc3339(astimezone_utc(expires_pht)),
     expires_at_unix |-> timestamp_int(expires_pht),
     timezone |-> "Asia/Manila (GMT+8)", keys |-> keys]

CsvHeader ==
    <<"key", "generated_at_pht", "expires_at_pht", "expires_at_unix", "unit",
      "amount", "tag">>

\* lines 62-71: one row per key, the batch metadata repeated; csv.writer
\* writes the integers as text
CsvRows(pl) ==
    [i \in 1..Len(pl.keys) |->
        [key |-> pl.keys[i],
         generated_at_pht |-> pl.generated_at_pht,
         expires_at_pht |-> pl.expires_at_pht,
         expires_at_unix |-> ToString(pl.expires_at_unix),
         unit |-> pl.unit,
         amount |-> ToString(pl.amount),
         tag |-> pl.tag]]

\* lines 86-94: the summary appended to the index
IndexEntry(run_name, pl) ==
    [run |-> run_name,
     unit |-> pl.unit,
     amount |-> pl.amount,
     count |-> Len(pl.keys),
     generated_at_pht |-> pl.generated_at_pht,
     expires_at_pht |-> pl.expires_at_pht,
     tag |-> pl.tag]

\* lines 80-85: index = [] unless index.json exists and json.loads accepts it;
\* is_list is FALSE where json.loads returns a value that is no list
LoadIndex(file) ==
    IF ~file.exists THEN [is_list |-> TRUE, items |-> <<>>]
    ELSE IF file.parse = "error" THEN [is_list |-> TRUE, items |-> <<>>]
    ELSE IF file.parse = "object" THEN [is_list |-> FALSE, items |-> <<>>]
    ELSE [is_list |-> TRUE, items |-> file.items]

\* Faulty variants of the append: an insert at the head, which C1 tells from
\* it by the order of the entries, and a list of the new entry alone, which
\* C8 tells from it by the entries lost without any overlap.
AppendEntryAtHead(items, entry) == <<entry>> \o items

AppendEntryAlone(items, entry) == <<entry>>

\* line 86: index.append(entry)
AppendEntry(items, entry) == Append(items, entry)

\* A faulty variant of the latest.json content: the payload without its keys,
\* which C7 tells from the payload written to keys.json.
LatestContentWithoutKeys(pl) ==
    [exists |-> TRUE, content |-> [pl EXCEPT !.keys = <<>>]]

\* line 76: what json.dump writes to latest.json
LatestContent(pl) == [exists |-> TRUE, content |-> pl]

\* What the file holds after this process has written its list at offset 0:
\* its list, or, when another process wrote a list since this one's open, that
\* list's tail after it (no JSON) if the other text was the longer.
DumpOutcomes(file, items) ==
    { [exists |-> TRUE, parse |-> "array", items |-> items] }
    \cup (IF file.parse = "array"
          THEN { [exists |-> TRUE, parse |-> "error", items |-> <<>>] }
          ELSE {})

Init ==
    /\ clock = 0
    /\ started = 0
    /\ index \in InitialIndex
    /\ outDir = index.exists
    /\ runDirs = << >>
    /\ latest = NoFile
    /\ pc = [p \in Procs |-> "idle"]
    /\ args = [p \in Procs |-> NoArgs]
    /\ payload = [p \in Procs |-> NoPayload]
    /\ stamp = [p \in Procs |-> NoStamp]
    /\ idx = [p \in Procs |-> <<>>]
    /\ log = <<>>
    /\ overlap = FALSE
    /\ broken = FALSE
    /\ latestSeen = {}
    /\ call = NoCall

(***************************************************************************)
(* main() and write_outputs().  Opening, writing and closing keys.json,    *)
(* keys.csv or latest.json is one step each; index.json, the one file the  *)
(* program reads back, is truncated by open("w") in a step of its own.     *)
(***************************************************************************)

\* main(): parse_args, the clock read, compute_expiry, the keys, the payload
\* and out_dir.mkdir(parents=True, exist_ok=True).  argparse rejects a unit
\* outside its choices (exit 2) and compute_expiry's ValueError is not caught
\* (traceback, exit 1): either way the process ends having changed nothing.
Main(p) ==
    /\ ~Running(p)
    /\ (p = "p2" => Running("p1"))
    /\ started < MaxRuns
    /\ \E a \in Requests :
        LET now_pht == datetime_now(clock)
        IN  IF ~Accepted(a, now_pht)
            THEN UNCHANGED <<started, outDir, pc, args, payload, overlap>>
            ELSE /\ \E keys \in KeyLists(a.count) :
                      payload' = [payload EXCEPT ![p] =
                          MakePayload(a, now_pht,
                              compute_expiry(now_pht, a.unit, a.amount).value,
                              keys)]
                 /\ args' = [args EXCEPT ![p] = a]
                 /\ outDir' = TRUE
                 /\ pc' = [pc EXCEPT ![p] = "mkdir_run"]
                 /\ started' = started + 1
                 /\ overlap' = (overlap \/ \E q \in Procs \ {p} : Running(q))
    /\ UNCHANGED <<clock, runDirs, latest, index, stamp, idx, log, broken,
                   latestSeen, call>>

\* lines 48-50: the run directory is named from a clock read of its own
MkdirRunDir(p) ==
    /\ pc[p] = "mkdir_run"
    /\ LET name == strftime(datetime_now(clock))
       IN  /\ stamp' = [stamp EXCEPT ![p] = name]
           /\ runDirs' = IF name \in DOMAIN runDirs
                         THEN runDirs
                         ELSE runDirs @@ (name :> [keys_json |-> NoFile,
                                                   keys_csv |-> NoCsv])
    /\ pc' = [pc EXCEPT ![p] = StepAfter("mkdir_run")]
    /\ UNCHANGED <<clock, started, outDir, latest, index, args, payload, idx,
                   log, overlap, broken, latestSeen, call>>

\* lines 53-55
WriteKeysJson(p) ==
    /\ pc[p] = "keys_json"
    /\ runDirs' = [runDirs EXCEPT ![stamp[p]].keys_json =
                      [exists |-> TRUE, content |-> payload[p]]]
    /\ pc' = [pc EXCEPT ![p] = StepAfter("keys_json")]
    /\ UNCHANGED <<clock, started, outDir, latest, index, args, payload, stamp,
                   idx, log, overlap, broken, latestSeen, call>>

\* lines 58-71
WriteKeysCsv(p) ==
    /\ pc[p] = "keys_csv"
    /\ runDirs' = [runDirs EXCEPT ![stamp[p]].keys_csv =
                      [exists |-> TRUE, header |-> CsvHeader,
                       rows |-> CsvRows(payload[p])]]
    /\ pc' = [pc EXCEPT ![p] = StepAfter("keys_csv")]
    /\ UNCHANGED <<clock, started, outDir, latest, index, args, payload, stamp,
                   idx, log, overlap, broken, latestSeen, call>>

\* lines 74-76
WriteLatest(p) ==
    /\ pc[p] = "latest"
    /\ latest' = LatestContent(payload[p])
    /\ latestSeen' = latestSeen \cup {[run |-> stamp[p], payload |-> payload[p]]}
    /\ pc' = [pc EXCEPT ![p] = StepAfter("latest")]
    /\ UNCHANGED <<clock, started, outDir, runDirs, index, args, payload, stamp,
                   idx, log, overlap, broken, call>>

\* The locals of a process that has ended
Ended(p) ==
    /\ pc' = [pc EXCEPT ![p] = "idle"]
    /\ args' = [args EXCEPT ![p] = NoArgs]
    /\ payload' = [payload EXCEPT ![p] = NoPayload]
    /\ stamp' = [stamp EXCEPT ![p] = NoStamp]
    /\ idx' = [idx EXCEPT ![p] = <<>>]

\* lines 79-94: read index.json and append this run's summary to the local
\* list; append on a value that is no list raises AttributeError (uncaught:
\* traceback, exit 1)
ReadIndex(p) ==
    /\ pc[p] = "read_index"
    /\ LET loaded == LoadIndex(index)
       IN  IF loaded.is_list
           THEN /\ idx' = [idx EXCEPT ![p] =
                              AppendEntry(loaded.items,
                                          IndexEntry(stamp[p], payload[p]))]
                /\ pc' = [pc EXCEPT ![p] = StepAfter("read_index")]
                /\ UNCHANGED <<broken, args, payload, stamp>>
           ELSE /\ Ended(p)
                /\ broken' = TRUE
    /\ UNCHANGED <<clock, started, outDir, runDirs, latest, index, log,
                   overlap, latestSeen, call>>

\* line 95: index_path.open("w") leaves an empty file, which is no JSON
OpenIndex(p) ==
    /\ pc[p] = "open_index"
    /\ index' = [exists |-> TRUE, parse |-> "error", items |-> <<>>]
    /\ pc' = [pc EXCEPT ![p] = StepAfter("open_index")]
    /\ UNCHANGED <<clock, started, outDir, runDirs, latest, args, payload,
                   stamp, idx, log, overlap, broken, latestSeen, call>>

\* lines 96-98: json.dump(index, f), close, print; main() returns (exit 0)
DumpIndex(p) ==
    /\ pc[p] = "dump_index"
    /\ index' \in DumpOutcomes(index, idx[p])
    /\ log' = Append(log, [run |-> stamp[p], args |-> args[p],
                            payload |-> payload[p]])
    /\ IF StepAfter("dump_index") = "idle"
       THEN Ended(p)
       ELSE /\ pc' = [pc EXCEPT ![p] = StepAfter("dump_index")]
            /\ UNCHANGED <<args, payload, stamp, idx>>
    /\ UNCHANGED <<clock, started, outDir, runDirs, latest, overlap, broken,
                   latestSeen, call>>

\* The host clock advances by half a second.
Tick ==
    /\ clock < MaxClock
    /\ clock' = clock + 1
    /\ UNCHANGED <<started, outDir, runDirs, latest, index, pc, args, payload,
                   stamp, idx, log, overlap, broken, latestSeen, call>>

Next ==
    \/ Tick
    \/ \E p \in Procs :
        \/ Main(p)
        \/ MkdirRunDir(p)
        \/ WriteKeysJson(p)
        \/ WriteKeysCsv(p)
        \/ WriteLatest(p)
        \/ ReadIndex(p)
        \/ OpenIndex(p)
        \/ DumpIndex(p)

Spec == Init /\ [][Next]_vars

(***************************************************************************)
(* compute_expiry called on its own, over a range of reference times.      *)
(***************************************************************************)
UnitInputs == VALID_UNITS \cup {"Days", "hours"}

ReferenceTimes ==
    { [year |-> c[1], month |-> c[2], day |-> c[3], hour |-> c[4][1],
       minute |-> c[4][2], second |-> c[4][3], microsecond |-> c[4][4],
       utcoffset |-> 8] :
        c \in { x \in {2023, 2024, 2096} \X (1..12) \X {1, 15, 28, 29, 30, 31}
                       \X {<<0, 0, 0, 0>>, <<23, 59, 59, 500000>>} :
                  x[3] <= days_in_month(x[1], x[2]) } }

InitExpiry ==
    /\ clock = 0
    /\ started = 0
    /\ index = [exists |-> FALSE, parse |-> "error", items |-> <<>>]
    /\ outDir = FALSE
    /\ runDirs = << >>
    /\ latest = NoFile
    /\ pc = [p \in Procs |-> "idle"]
    /\ args = [p \in Procs |-> NoArgs]
    /\ payload = [p \in Procs |-> NoPayload]
    /\ stamp = [p \in Procs |-> NoStamp]
    /\ idx = [p \in Procs |-> <<>>]
    /\ log = <<>>
    /\ overlap = FALSE
    /\ broken = FALSE
    /\ latestSeen = {}
    /\ call \in [state : {"args"}, now : ReferenceTimes, unit : UnitInputs,
                 amount : -1..MaxAmount, result : {NoDateTime}]

mainVars == <<clock, started, outDir, runDirs, latest, index, pc, args,
              payload, stamp, idx, log, overlap, broken, latestSeen>>

\* compute_expiry returns
CallReturns ==
    /\ call.state = "args"
    /\ ~compute_expiry(call.now, call.unit, call.amount).raised
    /\ call' = [call EXCEPT !.state = "returned",
                  !.result = compute_expiry(call.now, call.unit, call.amount).value]
    /\ UNCHANGED mainVars

\* compute_expiry raises ValueError
CallRaises ==
    /\ call.state = "args"
    /\ compute_expiry(call.now, call.unit, call.amount).raised
    /\ call' = [call EXCEPT !.state = "raised"]
    /\ UNCHANGED mainVars

NextExpiry == CallReturns \/ CallRaises

SpecExpiry == InitExpiry /\ [][NextExpiry]_vars

(***************************************************************************)
(* The claims.                                                             *)
(***************************************************************************)
Quiescent == \A p \in Procs : ~Running(p)

\* Every invocation so far succeeded and none ran while another was running.
Orderly == ~overlap /\ ~broken

\* The first invocation found no index.json (a JSON value that is no array is
\* never replaced: every invocation dies on it before it opens the file).
StartedWithoutIndex == index.parse # "object"

\* What the claim expects of the index entry of a logged invocation: the
\* run directory name, the arguments, the number of keys of the batch and the
\* generation and expiry timestamps.
SummaryOf(r) ==
    [run |-> r.run,
     unit |-> r.args.unit,
     amount |-> r.args.amount,
     count |-> Len(r.payload.keys),
     generated_at_pht |-> r.payload.generated_at_pht,
     expires_at_pht |-> r.payload.expires_at_pht,
     tag |-> r.args.tag]

C2_IndexStateNeverFatal == ~broken

\* C3: any two invocations use different run directories: no two running
\* invocations share one, and no two index entries carry the same run name.
C3_RunDirectoriesUnique ==
    /\ \A p, q \in Procs :
          (p # q /\ stamp[p] # NoStamp /\ stamp[q] # NoStamp)
              => stamp[p] # stamp[q]
    /\ \A i, j \in 1..Len(index.items) :
          i # j => index.items[i].run # index.items[j].run

\* C4: no invocation completes successfully with a unit outside VALID_UNITS,
\* an amount that is not positive or a count that is not positive.
C4_InvalidArgumentsNeverSucceed ==
    \A i \in 1..Len(log) :
        /\ log[i].args.unit \in VALID_UNITS
        /\ log[i].args.amount >= 1
        /\ log[i].args.count >= 1

\* C5: for every successful invocation with count >= 1, keys.json of its run
\* directory has count = len(keys) = the requested count, keys.csv has that
\* many rows, each repeating the batch's metadata, and the index entries
\* naming the run carry that count.
C5_BatchHoldsCountKeys ==
    \A i \in 1..Len(log) :
        log[i].args.count >= 1 =>
            LET dir == runDirs[log[i].run]
                js  == dir.keys_json.content
            IN  /\ js.count = log[i].args.count
                /\ Len(js.keys) = log[i].args.count
                /\ Len(dir.keys_csv.rows) = log[i].args.count
                /\ \A k \in 1..Len(dir.keys_csv.rows) :
                      LET row == dir.keys_csv.rows[k]
                      IN  /\ row.generated_at_pht = js.generated_at_pht
                          /\ row.expires_at_pht = js.expires_at_pht
                          /\ row.expires_at_unix = ToString(js.expires_at_unix)
                          /\ row.unit = js.unit
                          /\ row.amount = ToString(js.amount)
                          /\ row.tag = js.tag
                /\ \A k \in 1..Len(index.items) :
                      index.items[k].run = log[i].run
                          => index.items[k].count = Len(js.keys)

\* The calendar as the claim reads it, written without the ordinals the
\* library uses.
LeapYear(y) == (y % 4 = 0 /\ y % 100 # 0) \/ y % 400 = 0

MonthLength(y, m) ==
    IF m = 2 THEN (IF LeapYear(y) THEN 29 ELSE 28)
    ELSE IF m \in {4, 6, 9, 11} THEN 30 ELSE 31

DayAfter(d) ==
    IF d[3] < MonthLength(d[1], d[2]) THEN <<d[1], d[2], d[3] + 1>>
    ELSE IF d[2] < 12 THEN <<d[1], d[2] + 1, 1>>
    ELSE <<d[1] + 1, 1, 1>>

RECURSIVE DaysLater(_, _)
DaysLater(d, n) == IF n = 0 THEN d ELSE DaysLater(DayAfter(d), n - 1)

DateOf(dt) == <<dt.year, dt.month, dt.day>>

TimeOf(dt) == <<dt.hour, dt.minute, dt.second, dt.microsecond, dt.utcoffset>>

\* a is a later date than b
DateAfter(a, b) ==
    \/ a[1] > b[1]
    \/ a[1] = b[1] /\ a[2] > b[2]
    \/ a[1] = b[1] /\ a[2] = b[2] /\ a[3] > b[3]

ExpectedDate(now, unit, amount) ==
    IF unit = "days" THEN DaysLater(DateOf(now), amount)
    ELSE IF unit = "weeks" THEN DaysLater(DateOf(now), 7 * amount)
    ELSE IF unit = "months"
    THEN LET t == now.year * 12 + (now.month - 1) + amount
             y == t \div 12
             m == (t % 12) + 1
         IN  <<y, m, Min(now.day, MonthLength(y, m))>>
    ELSE LET y == now.year + amount
         IN  <<y, now.month,
               IF now.month = 2 /\ now.day = 29 /\ ~LeapYear(y)
               THEN 28 ELSE now.day>>

\* C6: for valid (unit, amount), amount >= 1, compute_expiry returns (it does
\* not raise) the reference time moved by the calendar offset: same time of
\* day and zone, the date amount days, 7*amount days, amount months (day
\* clamped to the month's end) or amount years (Feb 29 clamped) later, and
\* strictly later than the reference time.
C6_ExpiryIsCalendarOffset ==
    (lower(call.unit) \in VALID_UNITS /\ call.amount >= 1) =>
        /\ call.state # "raised"
        /\ call.state = "returned" =>
              /\ TimeOf(call.result) = TimeOf(call.now)
              /\ DateOf(call.result)
                    = ExpectedDate(call.now, lower(call.unit), call.amount)
              /\ DateAfter(DateOf(call.result), DateOf(call.now))

\* The spec's scenario has been computed: days/30 at 2024-01-01T00:00:00+08:00
\* gives 2024-01-31.
C6_Witness ==
    /\ call.state = "returned"
    /\ call.unit = "days" /\ call.amount = 30
    /\ DateOf(call.now) = <<2024, 1, 1>> /\ call.now.hour = 0
    /\ DateOf(call.result) = <<2024, 1, 31>>

\* C7: after successful non-overlapping invocations latest.json is identical
\* to keys.json of the last invocation's run directory, and the last entry of
\* index.json describes that run.
C7_LatestIsLastRun ==
    (Quiescent /\ Orderly /\ Len(log) > 0) =>
        LET last == log[Len(log)]
            dir  == runDirs[last.run]
            e    == index.items[Len(index.items)]
        IN  /\ latest.exists /\ dir.keys_json.exists
            /\ latest.content = dir.keys_json.content
            /\ latest.content = last.payload
            /\ index.parse = "array" /\ Len(index.items) > 0
            /\ e.run = last.run
            /\ e.generated_at_pht = latest.content.generated_at_pht
            /\ e.expires_at_pht = latest.content.expires_at_pht
            /\ e.unit = latest.content.unit
            /\ e.amount = latest.content.amount
            /\ e.tag = latest.content.tag
            /\ e.count = Len(latest.content.keys)

C7_Witness ==
    /\ Quiescent /\ Orderly
    /\ Len(log) = 2
    /\ log[1].payload # log[2].payload
    /\ latest.content = log[2].payload
    /\ Len(log[2].payload.keys) > 0

\* C8: index.json lacks a successful invocation's summary only if invocations
\* overlapped; any non-overlapping order keeps them all.
C8_LostUpdateOnlyWhenOverlapping ==
    (Quiescent /\ ~broken /\ StartedWithoutIndex
        /\ Len(LoadIndex(index).items) < Len(log)) => overlap

\* Two invocations have completed successfully and index.json is an array of
\* one summary: the other was lost.
C8_Witness ==
    /\ Quiescent /\ ~broken
    /\ Len(log) = 2
    /\ index.exists /\ index.parse = "array" /\ Len(index.items) = 1

\* C9: the run directory name is the date and time, to the second, of the
\* generated_at_pht of the payload.
C9_RunNamedFromGenerationTime ==
    \A p \in Procs :
        stamp[p] # NoStamp =>
            /\ stamp[p].date = payload[p].generated_at_pht.date
            /\ stamp[p].time = payload[p].generated_at_pht.time

ValidUnitAndAmount(a) == a.unit \in VALID_UNITS /\ a.amount >= 1

\* C10: in every state, every entry of index.json names a run directory that
\* exists and holds keys.json and keys.csv, and latest.json has been written
\* for that run; and only an invocation with a valid unit and amount creates
\* or writes anything: the output directory, the run directories, latest.json
\* and index.json carry nothing of a rejected invocation.
C10_IndexEntryWrittenLast ==
    /\ \A i \in 1..Len(index.items) :
          LET e == index.items[i]
          IN  /\ e.run \in DOMAIN runDirs
              /\ runDirs[e.run].keys_json.exists
              /\ runDirs[e.run].keys_csv.exists
              /\ latest.exists
              /\ \E w \in latestSeen :
                    /\ w.run = e.run
                    /\ w.payload.generated_at_pht = e.generated_at_pht
                    /\ w.payload.unit = e.unit
                    /\ w.payload.amount = e.amount
                    /\ w.payload.tag = e.tag
    /\ \A p \in Procs : Running(p) => ValidUnitAndAmount(args[p])
    /\ started = 0 =>
          /\ outDir = (index.parse = "object")
          /\ runDirs = << >>
          /\ ~latest.exists
          /\ index \in InitialIndex
    /\ \A name \in DOMAIN runDirs :
          runDirs[name].keys_json.exists
              => ValidUnitAndAmount(runDirs[name].keys_json.content)
    /\ latest.exists => ValidUnitAndAmount(latest.content)
    /\ \A i \in 1..Len(index.items) : ValidUnitAndAmount(index.items[i])

\* index.json has an entry while another invocation is in the middle of
\* write_outputs, its keys.csv not yet written.
C10_Witness ==
    /\ index.parse = "array" /\ Len(index.items) > 0
    /\ \E p \in Procs :
          /\ pc[p] = "keys_csv"
          /\ ~runDirs[stamp[p]].keys_csv.exists

=============================================================================
